---- MODULE Spec2Model ----
(***************************************************************************)
(* Redactly: the document-to-redaction pipeline.                           *)
(*                                                                         *)
(*   DocumentService  (services/documentService.ts)  text extraction and   *)
(*                    the regular-expression entity detector               *)
(*   AIService        (services/aiService.ts)  the filter and the applier; *)
(*                    the repository holds two definitions of this class   *)
(*   useDocumentProcessor (hooks/useDocumentProcessor.ts)  the driver      *)
(*                                                                         *)
(* A text is a sequence of characters, each character a one-token string.  *)
(* Offsets are 0-based and half-open as in the source, so the character at *)
(* offset i is text[i + 1].  Confidences are kept in hundredths.           *)
(***************************************************************************)
EXTENDS Integers, Sequences, FiniteSets, TLC

\* ------------------------------------------------------------------ bounds
\* process calls and option runs issued in one behaviour
MaxCalls == 4
\* spans handed to the filter in the pure-function specification
MaxSpans == 2
\* length of the text of the pure-function specifications
TextLen == 4
\* distance between the sensitivity levels the filter is run at
LevelStep == 10

\* ------------------------------------------------------------- characters
Lower == {"a","b","c","d","e","f","g","h","i","j","k","l","m",
          "n","o","p","q","r","s","t","u","v","w","x","y","z"}
Upper == {"A","B","C","D","E","F","G","H","I","J","K","L","M",
          "N","O","P","Q","R","S","T","U","V","W","X","Y","Z"}
Digits == {"0","1","2","3","4","5","6","7","8","9"}
Letters == Lower \cup Upper
\* \s of the regular expressions and of String.prototype.trim
WhiteSpace == {" ", "\n", "\t", "\r"}

\* the block character U+2588 of aiService.ts:116
Block == "BLOCK"
\* aiService.ts:346 holds the three characters U+00E2 U+2013 U+02C6 instead
MojibakeBlock == <<"U00E2", "U2013", "U02C6">>

Min(a, b) == IF a < b THEN a ELSE b
Max(a, b) == IF a > b THEN a ELSE b

RECURSIVE Repeat(_, _)
\* String.prototype.repeat: a negative count throws, modelled as <<>>
Repeat(s, n) == IF n <= 0 THEN <<>> ELSE s \o Repeat(s, n - 1)

\* String.prototype.slice(a, b) with its clamping of both indices
SliceIndex(len, a) == IF a < 0 THEN Max(len + a, 0) ELSE Min(a, len)
Slice(s, a, b) ==
    LET from == SliceIndex(Len(s), a)
        to == SliceIndex(Len(s), b)
    IN  IF from >= to THEN <<>> ELSE SubSeq(s, from + 1, to)

RECURSIVE TrimStart(_)
TrimStart(s) ==
    IF s # <<>> /\ s[1] \in WhiteSpace THEN TrimStart(Tail(s)) ELSE s
RECURSIVE TrimEnd(_)
TrimEnd(s) ==
    IF s # <<>> /\ s[Len(s)] \in WhiteSpace
    THEN TrimEnd(SubSeq(s, 1, Len(s) - 1)) ELSE s
\* String.prototype.trim
Trim(s) == TrimEnd(TrimStart(s))

RECURSIVE Join(_, _)
\* Array.prototype.join
Join(strs, sep) ==
    IF strs = <<>> THEN <<>>
    ELSE IF Len(strs) = 1 THEN strs[1]
    ELSE strs[1] \o sep \o Join(Tail(strs), sep)

\* -------------------------------------------------- regular expressions
\* A pattern is a list of alternatives tried in order; an alternative is a
\* list of items; an item is a character class with a greedy quantifier.
Unbounded == 1000
Item(cls, neg, min, max) == [cls |-> cls, neg |-> neg, min |-> min, max |-> max]
One(c) == Item({c}, FALSE, 1, 1)
InClass(it, ch) == (ch \in it.cls) # it.neg

RECURSIVE Run(_, _, _, _)
\* how many characters from offset pos on are in the item's class, up to max
Run(it, text, pos, max) ==
    IF max = 0 \/ pos >= Len(text) \/ ~InClass(it, text[pos + 1]) THEN 0
    ELSE 1 + Run(it, text, pos + 1, max - 1)

RECURSIVE MatchFrom(_, _, _, _)
RECURSIVE TryCount(_, _, _, _, _)
\* the end offset of the match of items k.. at offset pos, -1 if none;
\* greedy, backtracking to shorter repetitions
MatchFrom(items, k, text, pos) ==
    IF k > Len(items) THEN pos
    ELSE LET avail == Run(items[k], text, pos, items[k].max)
         IN  IF avail < items[k].min THEN -1
             ELSE TryCount(items, k, text, pos, avail)
TryCount(items, k, text, pos, n) ==
    LET r == MatchFrom(items, k + 1, text, pos + n)
    IN  IF r >= 0 THEN r
        ELSE IF n > items[k].min THEN TryCount(items, k, text, pos, n - 1)
        ELSE -1

RECURSIVE MatchAlt(_, _, _, _)
MatchAlt(alts, a, text, pos) ==
    IF a > Len(alts) THEN -1
    ELSE LET r == MatchFrom(alts[a], 1, text, pos)
         IN  IF r >= 0 THEN r ELSE MatchAlt(alts, a + 1, text, pos)

RECURSIVE ExecAll(_, _, _)
\* the loop `while ((match = regex.exec(text)) !== null)` of a /g pattern:
\* the matches as <<start, end>> pairs, each search resuming at lastIndex
ExecAll(alts, text, from) ==
    IF from > Len(text) THEN <<>>
    ELSE LET r == MatchAlt(alts, 1, text, from)
         IN  IF r < 0 THEN ExecAll(alts, text, from + 1)
             ELSE <<(<<from, r>>)>> \o ExecAll(alts, text, IF r > from THEN r ELSE from + 1)

\* /[a-zA-Z0-9._%+-]+@[a-zA-Z0-9.-]+\.[a-zA-Z]{2,}/g
emailRegex ==
    << << Item(Letters \cup Digits \cup {".", "_", "%", "+", "-"}, FALSE, 1, Unbounded),
          One("@"),
          Item(Letters \cup Digits \cup {".", "-"}, FALSE, 1, Unbounded),
          One("."),
          Item(Letters, FALSE, 2, Unbounded) >> >>

phoneTail ==
    << Item({"("}, FALSE, 0, 1), Item(Digits, FALSE, 3, 3), Item({")"}, FALSE, 0, 1),
       Item({"-", "."}, FALSE, 0, 1), Item(Digits, FALSE, 3, 3),
       Item({"-", "."}, FALSE, 0, 1), Item(Digits, FALSE, 4, 4) >>
\* /(\+\d{1,3}[-.]?)?\(?\d{3}\)?[-.]?\d{3}[-.]?\d{4}/g
phoneRegex ==
    << << One("+"), Item(Digits, FALSE, 1, 3), Item({"-", "."}, FALSE, 0, 1) >> \o phoneTail,
       phoneTail >>

\* /(https?:\/\/[^\s]+)/g
urlRegex ==
    << << One("h"), One("t"), One("t"), One("p"), Item({"s"}, FALSE, 0, 1),
          One(":"), One("/"), One("/"),
          Item(WhiteSpace, TRUE, 1, Unbounded) >> >>

\* one entity per match: documentService.ts:167,170,173
EntitiesOf(text, alts, type) ==
    LET ms == ExecAll(alts, text, 0)
    IN  [i \in 1..Len(ms) |->
            [text |-> SubSeq(text, ms[i][1] + 1, ms[i][2]), type |-> type,
             start |-> ms[i][1], end |-> ms[i][2], confidence |-> 95]]

\* DocumentService.extractEntities
extractEntities(text) ==
    EntitiesOf(text, emailRegex, "EMAIL")
      \o EntitiesOf(text, phoneRegex, "PHONE")
      \o EntitiesOf(text, urlRegex, "URL")

\* ------------------------------------------------------- DocumentService
\* the absent value: null of the hook state, undefined of a missing field
null == [null |-> TRUE]
\* metadata.pageCount of a document that has none (undefined in the source)
NoPageCount == -1

\* "Contact me at a@b.com or 555-123-4567."
ScenarioText ==
    << "C","o","n","t","a","c","t"," ","m","e"," ","a","t"," ",
       "a","@","b",".","c","o","m"," ","o","r"," ",
       "5","5","5","-","1","2","3","-","4","5","6","7","." >>
\* "x@y.io"
ShortText == << "x","@","y",".","i","o" >>

\* A File: its MIME type, the extension its name ends with, and what the
\* parser backend makes of its bytes (opens: getDocument / extractRawText
\* succeeds; a page is its text items, or fails to extract).
Page(ok, items) == [ok |-> ok, items |-> items]
FilePdf == [name |-> "pdf1", type |-> "application/pdf", ext |-> ".pdf",
            opens |-> TRUE, pages |-> << Page(TRUE, << ScenarioText >>) >>,
            value |-> <<>>]
FileDocx == [name |-> "docx1",
             type |-> "application/vnd.openxmlformats-officedocument.wordprocessingml.document",
             ext |-> ".docx", opens |-> TRUE, pages |-> <<>>, value |-> ShortText]
FileTxt == [name |-> "txt1", type |-> "text/plain", ext |-> ".txt",
            opens |-> TRUE, pages |-> <<>>, value |-> ShortText]
FileCorrupt == [name |-> "pdf2", type |-> "application/pdf", ext |-> ".pdf",
                opens |-> FALSE, pages |-> <<>>, value |-> <<>>]
Files == {FilePdf, FileDocx, FileTxt, FileCorrupt}

\* fileType.includes(word), over the MIME types of the model
TypeIncludes(type, word) ==
    \/ word = "pdf" /\ type \in {"application/pdf", "application/x-pdf"}
    \/ word = "docx" /\ type \in {"application/docx"}

\* documentService.ts:74-76
KindOf(file) ==
    IF TypeIncludes(file.type, "pdf") \/ file.ext = ".pdf" THEN "pdf"
    ELSE IF TypeIncludes(file.type, "docx") \/ file.ext = ".docx" THEN "docx"
    ELSE "unknown"

RECURSIVE PagesText(_, _)
\* the loop of processPDF over pages i..pageCount: a page that fails adds
\* nothing, a page that extracts adds its items joined by ' ' and a '\n'
PagesText(pages, i) ==
    IF i > Len(pages) THEN <<>>
    ELSE (IF pages[i].ok THEN Join(pages[i].items, << " " >>) \o << "\n" >> ELSE <<>>)
           \o PagesText(pages, i + 1)

\* DocumentService.processPDF, for a file whose getDocument succeeds
processPDF(file) ==
    [text |-> Trim(PagesText(file.pages, 1)), pageCount |-> Len(file.pages)]

\* DocumentService.processDOCX, for a file whose extractRawText succeeds
processDOCX(file) == file.value

RECURSIVE WordCount(_, _)
\* text.split(/\s+/).filter(Boolean).length: the maximal runs of
\* non-whitespace characters
WordCount(text, inWord) ==
    IF text = <<>> THEN 0
    ELSE IF text[1] \in WhiteSpace THEN WordCount(Tail(text), FALSE)
    ELSE (IF inWord THEN 0 ELSE 1) + WordCount(Tail(text), TRUE)

\* whether DocumentService.processDocument throws for the file, and what
ProcessError(file) ==
    IF KindOf(file) = "unknown" THEN "Unsupported file type."
    ELSE IF ~file.opens
         THEN (IF KindOf(file) = "pdf" THEN "Failed to process PDF file."
               ELSE "Failed to process DOCX file.")
    ELSE "null"

\* DocumentService.processDocument, for a file it does not throw for
DocumentService_processDocument(file) ==
    LET kind == KindOf(file)
        text == IF kind = "pdf" THEN processPDF(file).text ELSE processDOCX(file)
    IN  [text |-> text,
         metadata |-> [type |-> kind,
                       pageCount |-> IF kind = "pdf" THEN processPDF(file).pageCount
                                     ELSE NoPageCount,
                       wordCount |-> WordCount(text, FALSE)],
         entities |-> extractEntities(text)]

\* ------------------------------------------------------------- AIService
\* The repository holds two definitions of the class AIService: the
\* placeholder (aiService.ts:38-195) and the two-pass one that calls the
\* Ollama endpoint (aiService.ts:211-354).
Services == {"placeholder", "ollama"}

\* options.<field>, undefined (falsy) when the caller's record lacks it
Flag(options, field) == IF field \in DOMAIN options THEN options[field] ELSE FALSE

\* The hundredths c at which the double c/100 is below the double
\* 0.5 + (c - 50)/100, although the two are equal as reals.
RoundsBelow == {1, 2, 3, 8, 9, 15, 21, 29, 41, 57, 82, 83, 84}

\* aiService.ts:77-78: entity.confidence < 0.5 + (sensitivityLevel - 50) / 100
BelowThreshold(confidence, sensitivityLevel) ==
    \/ confidence < sensitivityLevel
    \/ confidence = sensitivityLevel /\ confidence \in RoundsBelow

\* mockFilter with the category test of an EMAIL span left out
mockFilter_anyEmail(entity, options) ==
    IF BelowThreshold(entity.confidence, options.sensitivityLevel) THEN FALSE
    ELSE IF entity.type = "EMAIL" THEN TRUE
    ELSE IF entity.type = "PHONE" /\ Flag(options, "redactPII") THEN TRUE
    ELSE FALSE

\* the callback of entities.filter, aiService.ts:75-85
mockFilter(entity, options) ==
    IF BelowThreshold(entity.confidence, options.sensitivityLevel) THEN FALSE
    ELSE IF entity.type = "EMAIL" /\ Flag(options, "redactPII") THEN TRUE
    ELSE IF entity.type = "PHONE" /\ Flag(options, "redactPII") THEN TRUE
    ELSE FALSE

RECURSIVE mockKept(_, _)
\* entities.filter(...) of aiService.ts:74-85
mockKept(entities, options) ==
    IF entities = <<>> THEN <<>>
    ELSE (IF mockFilter(entities[1], options) THEN << entities[1] >> ELSE <<>>)
           \o mockKept(Tail(entities), options)

\* aiService.ts:86-94: index is the position in the filtered array; the
\* id `mock-${index}-${entity.start}` is kept as its three parts
mockRedactions(entities, options) ==
    LET kept == mockKept(entities, options)
    IN  [j \in 1..Len(kept) |->
            [id |-> << "mock", j - 1, kept[j].start >>,
             text |-> kept[j].text,
             type |-> kept[j].type,
             confidence |-> kept[j].confidence * 100,
             start |-> kept[j].start,
             end |-> kept[j].end,
             needsReview |-> kept[j].confidence < 80]]

RECURSIVE Stamp(_, _, _)
\* the inner loop of applyMockRedactions: indices i..end-1.  An index at or
\* past result.length is skipped; a negative index sets a property of the
\* array that join() does not see.
Stamp(result, i, end) ==
    IF i >= end THEN result
    ELSE Stamp(IF i < Len(result) /\ i >= 0
               THEN [result EXCEPT ![i + 1] = Block] ELSE result,
               i + 1, end)

RECURSIVE applyMockRedactions(_, _)
\* AIService.applyMockRedactions, aiService.ts:111-121
applyMockRedactions(text, redactions) ==
    IF redactions = <<>> THEN text
    ELSE applyMockRedactions(Stamp(text, redactions[1].start, redactions[1].end),
                             Tail(redactions))

\* the placeholder AIService.detectSensitiveData, aiService.ts:63-108
detectSensitiveData_placeholder(document, options) ==
    LET redactions == mockRedactions(document.entities, options)
    IN  [redactions |-> redactions,
         redactedText |-> applyMockRedactions(document.text, redactions)]

\* AIService.shouldRedactEntity, aiService.ts:269-293:
\* entity.confidence * (sensitivityLevel / 100) < 0.5 in ten-thousandths
shouldRedactEntity(entity, options) ==
    IF entity.confidence * options.sensitivityLevel < 5000 THEN FALSE
    ELSE IF entity.type = "PERSON" /\ Flag(options, "showPII") THEN TRUE
    ELSE IF entity.type = "MONEY" /\ Flag(options, "showFinancial") THEN TRUE
    ELSE IF entity.type = "DATE" /\ Flag(options, "showDates") THEN TRUE
    ELSE FALSE

RECURSIVE firstPass(_, _)
\* the loop over entities of aiService.ts:239-251; the id
\* `entity-${entity.start}-${entity.end}` is kept as its three parts
firstPass(entities, options) ==
    IF entities = <<>> THEN <<>>
    ELSE (IF shouldRedactEntity(entities[1], options)
          THEN << [id |-> << "entity", entities[1].start, entities[1].end >>,
                   text |-> entities[1].text,
                   type |-> entities[1].type,
                   confidence |-> entities[1].confidence,
                   start |-> entities[1].start,
                   end |-> entities[1].end,
                   needsReview |-> entities[1].confidence < 80] >>
          ELSE <<>>)
           \o firstPass(Tail(entities), options)

\* AIService.detectWithOllama, aiService.ts:295-337.  A reply is what the
\* endpoint does: ok = FALSE when fetch, response.json() or JSON.parse
\* throws (caught, []), else the parsed array.
detectWithOllama(reply) == IF reply.ok THEN reply.items ELSE <<>>

RECURSIVE InsertByStart(_, _)
InsertByStart(sorted, r) ==
    IF sorted = <<>> THEN << r >>
    ELSE IF r.start < sorted[1].start THEN << r >> \o sorted
    ELSE << sorted[1] >> \o InsertByStart(Tail(sorted), r)
RECURSIVE SortByStart(_)
\* redactions.sort((a, b) => a.start - b.start): stable
SortByStart(redactions) ==
    IF redactions = <<>> THEN <<>>
    ELSE InsertByStart(SortByStart(SubSeq(redactions, 1, Len(redactions) - 1)),
                       redactions[Len(redactions)])

RECURSIVE Splice(_, _, _)
\* the loop of AIService.applyRedactions, aiService.ts:343-350
Splice(result, offset, redactions) ==
    IF redactions = <<>> THEN result
    ELSE LET start == redactions[1].start + offset
             end == redactions[1].end + offset
             redactedText == Repeat(MojibakeBlock, redactions[1].end - redactions[1].start)
         IN  Splice(Slice(result, 0, start) \o redactedText
                      \o Slice(result, end, Len(result)),
                    offset + (Len(redactedText) - (end - start)),
                    Tail(redactions))

\* AIService.applyRedactions, aiService.ts:339-353
AIService_applyRedactions(text, redactions) == Splice(text, 0, redactions)

\* the two-pass AIService.detectSensitiveData, aiService.ts:226-267
detectSensitiveData_ollama(document, options, reply) ==
    LET redactions == SortByStart(firstPass(document.entities, options)
                                    \o detectWithOllama(reply))
    IN  [redactions |-> redactions,
         redactedText |-> AIService_applyRedactions(document.text, redactions)]

\* aiService.detectSensitiveData(document, options) of the definition bound
detectSensitiveData(svc, document, options, reply) ==
    IF svc = "placeholder" THEN detectSensitiveData_placeholder(document, options)
    ELSE detectSensitiveData_ollama(document, options, reply)

\* ------------------------------------------------- useDocumentProcessor
VARIABLES
    state,                \* the hook's useState record
    processedDocumentRef, \* processedDocumentRef.current
    service,              \* the AIService definition '../services/aiService' binds
    extracting,           \* processDocument calls awaiting DocumentService
    detecting,            \* applyRedactions runs awaiting AIService, oldest first
    issued,               \* number of processDocument / applyRedactions calls so far
    lastOp,               \* history: the handler step taken last
    calls,                \* history: every call issued and what became of it
    pure                  \* inputs and outputs of the pure-function specification

vars == << state, processedDocumentRef, service, extracting, detecting,
           issued, lastOp, calls, pure >>

\* App.tsx:57-62, 79, 86: the options record the driver passes
HookLevels == {50}
DriverOptions ==
    [sensitivityLevel : HookLevels, showPII : BOOLEAN,
     showFinancial : {TRUE}, showDates : {TRUE}]

\* what the Ollama endpoint may answer to a run of the hook
PersonItem ==
    [text |-> << "x" >>, type |-> "PERSON", confidence |-> 90, start |-> 0, end |-> 1]
HookReplies == { [ok |-> FALSE, items |-> <<>>], [ok |-> TRUE, items |-> << PersonItem >>] }

\* useDocumentProcessor.ts:20-28
InitialState ==
    [processedDocument |-> null, redactionResult |-> null,
     isLoading |-> FALSE, error |-> "null"]

Op(op, id, ret) == [op |-> op, id |-> id, ret |-> ret]
\* a call of the history: on is the processDocument call whose document the
\* call works on (0 if none), displayed whether a document and its result
\* were both held when the call was made
Call(kind, status, file, on) ==
    [kind |-> kind, status |-> status, file |-> file, on |-> on,
     displayed |-> state.processedDocument # null /\ state.redactionResult # null]

Init ==
    /\ state = InitialState
    /\ processedDocumentRef = null
    /\ service \in Services
    /\ extracting = {}
    /\ detecting = <<>>
    /\ issued = 0
    /\ lastOp = Op("init", 0, null)
    /\ calls = <<>>
    /\ pure = null

\* processDocument_begin without its `processedDocument: null`
processDocument_begin_keepsDocument(prev) ==
    [prev EXCEPT !.isLoading = TRUE, !.error = "null", !.redactionResult = null]

\* useDocumentProcessor.ts:31: the updater of the first setState
processDocument_begin(prev) ==
    [prev EXCEPT !.isLoading = TRUE, !.error = "null",
                 !.redactionResult = null, !.processedDocument = null]

\* useDocumentProcessor.ts:39-44
processDocument_done(prev, doc) ==
    [prev EXCEPT !.processedDocument = doc, !.isLoading = FALSE]

\* processDocument_catch without its `processedDocument: null`
processDocument_catch_keepsDocument(prev, errorMessage) ==
    [prev EXCEPT !.error = errorMessage, !.isLoading = FALSE]

\* useDocumentProcessor.ts:50-55
processDocument_catch(prev, errorMessage) ==
    [prev EXCEPT !.error = errorMessage, !.isLoading = FALSE,
                 !.processedDocument = null]

\* processDocument(file) up to its await (useDocumentProcessor.ts:30-36).
\* An unsupported kind makes DocumentService.processDocument reject before
\* it awaits anything, so the catch block (47-58) runs before any other
\* handler; every other file leaves the call waiting for its parser.
processDocument(file) ==
    /\ issued < MaxCalls
    /\ issued' = issued + 1
    /\ IF KindOf(file) = "unknown"
       THEN /\ state' = processDocument_catch(processDocument_begin(state),
                                              ProcessError(file))
            /\ extracting' = extracting
            /\ lastOp' = Op("processFailed", issued + 1, null)
            /\ calls' = Append(calls, Call("process", "failed", file, issued + 1))
       ELSE /\ state' = processDocument_begin(state)
            /\ extracting' = extracting \cup { [id |-> issued + 1, file |-> file] }
            /\ lastOp' = Op("processStarted", issued + 1, null)
            /\ calls' = Append(calls, Call("process", "pending", file, issued + 1))
    /\ processedDocumentRef' = null
    /\ UNCHANGED << service, detecting, pure >>

\* the ProcessedDocument of a call; call is history, not a field of the source
Extracted ==
    [file \in {f \in Files : ProcessError(f) = "null"} |->
        DocumentService_processDocument(file)]
DocOf(c) ==
    LET d == Extracted[c.file]
    IN  [text |-> d.text, metadata |-> d.metadata, entities |-> d.entities,
         call |-> c.id]

\* processDocument after its await resolved (useDocumentProcessor.ts:37-46)
processDocument_resolved(c) ==
    /\ c \in extracting
    /\ ProcessError(c.file) = "null"
    /\ state' = processDocument_done(state, DocOf(c))
    /\ processedDocumentRef' = DocOf(c)
    /\ extracting' = extracting \ {c}
    /\ lastOp' = Op("processSucceeded", c.id, DocOf(c))
    /\ calls' = [calls EXCEPT ![c.id].status = "succeeded"]
    /\ UNCHANGED << service, detecting, issued, pure >>

\* processDocument after its await rejected (useDocumentProcessor.ts:47-58)
processDocument_rejected(c) ==
    /\ c \in extracting
    /\ ProcessError(c.file) # "null"
    /\ state' = processDocument_catch(state, ProcessError(c.file))
    /\ processedDocumentRef' = null
    /\ extracting' = extracting \ {c}
    /\ lastOp' = Op("processFailed", c.id, null)
    /\ calls' = [calls EXCEPT ![c.id].status = "failed"]
    /\ UNCHANGED << service, detecting, issued, pure >>

NoDocumentError == "Cannot apply redactions: No document processed yet."

\* applyRedactions_noDocument ending the loading state as the catch blocks do
applyRedactions_noDocument_stopsLoading(prev) ==
    [prev EXCEPT !.error = NoDocumentError, !.isLoading = FALSE]

\* useDocumentProcessor.ts:66
applyRedactions_noDocument(prev) == [prev EXCEPT !.error = NoDocumentError]

\* useDocumentProcessor.ts:70
applyRedactions_begin(prev) == [prev EXCEPT !.isLoading = TRUE, !.error = "null"]

\* useDocumentProcessor.ts:81-85
applyRedactions_done(prev, result) ==
    [prev EXCEPT !.redactionResult = result, !.isLoading = FALSE]

\* applyRedactions(options) when the ref holds no document
\* (useDocumentProcessor.ts:62-68)
applyRedactions_refused(options) ==
    /\ issued < MaxCalls
    /\ processedDocumentRef = null
    /\ issued' = issued + 1
    /\ state' = applyRedactions_noDocument(state)
    /\ lastOp' = Op("applyRefused", issued + 1, null)
    /\ calls' = Append(calls, Call("apply", "refused", null, 0))
    /\ UNCHANGED << processedDocumentRef, service, extracting, detecting, pure >>

\* applyRedactions(options) up to its await (useDocumentProcessor.ts:62-78)
applyRedactions(options) ==
    /\ issued < MaxCalls
    /\ processedDocumentRef # null
    /\ issued' = issued + 1
    /\ state' = applyRedactions_begin(state)
    /\ detecting' = Append(detecting, [id |-> issued + 1,
                                       currentProcessedDoc |-> processedDocumentRef,
                                       options |-> options])
    /\ lastOp' = Op("applyStarted", issued + 1, null)
    /\ calls' = Append(calls, Call("apply", "pending", null, processedDocumentRef.call))
    /\ UNCHANGED << processedDocumentRef, service, extracting, pure >>

\* the RedactionResult of a run; run, call and options are history
ResultOf(r, reply) ==
    LET res == detectSensitiveData(service, r.currentProcessedDoc, r.options, reply)
    IN  [redactions |-> res.redactions, redactedText |-> res.redactedText,
         run |-> r.id, call |-> r.currentProcessedDoc.call, options |-> r.options]

RemoveAt(seq, i) == SubSeq(seq, 1, i - 1) \o SubSeq(seq, i + 1, Len(seq))

\* applyRedactions after its await resolved (useDocumentProcessor.ts:79-85).
\* The placeholder resolves 500 ms after its call (aiService.ts:100), so its
\* runs resolve in call order; the Ollama round trips resolve in any order.
applyRedactions_resolved(i, reply) ==
    /\ i \in 1..Len(detecting)
    /\ service = "placeholder" => i = 1
    /\ state' = applyRedactions_done(state, ResultOf(detecting[i], reply))
    /\ detecting' = RemoveAt(detecting, i)
    /\ lastOp' = Op("applySucceeded", detecting[i].id, null)
    /\ calls' = [calls EXCEPT ![detecting[i].id].status = "succeeded"]
    /\ UNCHANGED << processedDocumentRef, service, extracting, issued, pure >>

\* reset(), useDocumentProcessor.ts:98-106
reset ==
    /\ state' = InitialState
    /\ processedDocumentRef' = null
    /\ lastOp' = Op("reset", 0, null)
    /\ UNCHANGED << service, extracting, detecting, issued, calls, pure >>

Next ==
    \/ \E file \in Files : processDocument(file)
    \/ \E c \in extracting : processDocument_resolved(c)
    \/ \E c \in extracting : processDocument_rejected(c)
    \/ \E options \in DriverOptions : applyRedactions_refused(options)
    \/ \E options \in DriverOptions : applyRedactions(options)
    \/ \E i \in 1..Len(detecting), reply \in HookReplies : applyRedactions_resolved(i, reply)
    \/ reset

Spec == Init /\ [][Next]_vars

\* --------------------------------------------- the filter, on its own
\* The filter of the bound AIService applied to span lists of every type a
\* detector names, first with the driver's default options (App.tsx:24-27)
\* and then re-run as the driver's handlers change one option at a time.
\* What the second detector answers is fixed for the behaviour.
PureText == [i \in 1..TextLen |-> << "a","b","c","d","e","f","g","h","i","j" >>[i]]
SpanTypes == {"EMAIL", "PHONE", "URL", "PERSON", "MONEY", "DATE"}
BaselineTypes == {"EMAIL", "PHONE", "URL"}
Confidences == {50, 95}
PureLevels == {s \in 0..100 : s % LevelStep = 0}

\* the k-th span of a list covers offsets k-1 and k
SpanAt(k, type, confidence) ==
    [text |-> SubSeq(PureText, k, Min(k + 1, TextLen)), type |-> type,
     start |-> k - 1, end |-> Min(k + 1, TextLen), confidence |-> confidence]
SpanLists ==
    UNION { { [k \in 1..n |-> SpanAt(k, ts[k], cs[k])] :
                ts \in [1..n -> SpanTypes], cs \in [1..n -> Confidences] } :
            n \in 0..Min(MaxSpans, TextLen) }

\* the options record in the shape the bound definition declares:
\* AIDetectionOptions (aiService.ts:24-30) or aiService.ts:228-233
OptionsFor(svc, level, pii, financial, dates) ==
    IF svc = "placeholder"
    THEN [sensitivityLevel |-> level, redactPII |-> pii,
          redactFinancial |-> financial, redactDates |-> dates]
    ELSE [sensitivityLevel |-> level, showPII |-> pii,
          showFinancial |-> financial, showDates |-> dates]
PIIFlag(options) == Flag(options, "redactPII") \/ Flag(options, "showPII")
FinancialFlag(options) == Flag(options, "redactFinancial") \/ Flag(options, "showFinancial")
DatesFlag(options) == Flag(options, "redactDates") \/ Flag(options, "showDates")

PureReplies(svc) ==
    IF svc = "placeholder" THEN { [ok |-> FALSE, items |-> <<>>] } ELSE HookReplies

PureDocument(entities) == [text |-> PureText, entities |-> entities]

Filtered(entities, options, reply) ==
    [spec |-> "filter", entities |-> entities, options |-> options, reply |-> reply,
     result |-> detectSensitiveData(service, PureDocument(entities), options, reply)]

HookIdle ==
    /\ state = InitialState
    /\ processedDocumentRef = null
    /\ extracting = {}
    /\ detecting = <<>>
    /\ issued = 0
    /\ lastOp = Op("init", 0, null)
    /\ calls = <<>>

InitFilter ==
    /\ HookIdle
    /\ service \in Services
    /\ \E entities \in SpanLists, reply \in PureReplies(service) :
          pure = Filtered(entities, OptionsFor(service, 50, TRUE, TRUE, TRUE), reply)

\* the filter re-run at another sensitivity level (App.tsx:77-80)
ChangeSensitivity(value) ==
    /\ pure' = Filtered(pure.entities,
                        [pure.options EXCEPT !.sensitivityLevel = value], pure.reply)
    /\ UNCHANGED << state, processedDocumentRef, service, extracting, detecting,
                    issued, lastOp, calls >>

\* the filter re-run with one category flag changed (App.tsx:82-102)
ChangeFilter(filter, value) ==
    /\ pure' = Filtered(pure.entities,
                        OptionsFor(service, pure.options.sensitivityLevel,
                                   IF filter = "showPII" THEN value ELSE PIIFlag(pure.options),
                                   IF filter = "showFinancial" THEN value ELSE FinancialFlag(pure.options),
                                   IF filter = "showDates" THEN value ELSE DatesFlag(pure.options)),
                        pure.reply)
    /\ UNCHANGED << state, processedDocumentRef, service, extracting, detecting,
                    issued, lastOp, calls >>

NextFilter ==
    \/ \E value \in PureLevels : ChangeSensitivity(value)
    \/ \E filter \in {"showPII", "showFinancial", "showDates"}, value \in BOOLEAN :
          ChangeFilter(filter, value)

SpecFilter == InitFilter /\ [][NextFilter]_vars

\* -------------------------------------------- the applier, on its own
\* The applier of the bound AIService on the text and a candidate list.  The
\* two-pass definition sorts the list before it applies it (aiService.ts:258).
Ranges ==
    { << start, end >> \in (0..(TextLen - 1)) \X (1..TextLen) : start < end }
\* the ranges a candidate may name, in the text or not, also with end < start
AnyRanges == (-1..TextLen) \X (0..(TextLen + 1))
\* the candidate list of a sequence of ranges
CandidatesOf(rs) == [k \in 1..Len(rs) |-> [start |-> rs[k][1], end |-> rs[k][2]]]

\* '...'.repeat(redaction.end - redaction.start) of aiService.ts:346 throws a
\* RangeError for a negative count; the loop of applyMockRedactions does not
\* run for such a candidate
ApplyThrows(svc, candidates) ==
    svc = "ollama" /\ \E k \in 1..Len(candidates) : candidates[k].end < candidates[k].start

\* redactedText as the bound definition computes it
Applied(svc, text, candidates) ==
    IF svc = "placeholder" THEN applyMockRedactions(text, candidates)
    ELSE AIService_applyRedactions(text, SortByStart(candidates))

InitApply ==
    /\ HookIdle
    /\ service \in Services
    /\ \E n \in 0..MaxSpans : \E rs \in [1..n -> AnyRanges] :
          pure = [spec |-> "apply", text |-> PureText, candidates |-> CandidatesOf(rs),
                  applied |-> FALSE, threw |-> FALSE, redactedText |-> null]

Apply ==
    /\ ~pure.applied
    /\ pure' = [pure EXCEPT
                  !.applied = TRUE,
                  !.threw = ApplyThrows(service, pure.candidates),
                  !.redactedText = IF ApplyThrows(service, pure.candidates) THEN null
                                   ELSE Applied(service, pure.text, pure.candidates)]
    /\ UNCHANGED << state, processedDocumentRef, service, extracting, detecting,
                    issued, lastOp, calls >>

NextApply == Apply

SpecApply == InitApply /\ [][NextApply]_vars

\* ------------------------------------- the filter on spans of any range
\* The filter of the bound AIService on span lists whose spans lie anywhere
\* in the text, in any emission order, re-run as the driver's handlers change
\* the sensitivity level or the PII flag.
MaxStart == 1
MaxWidth == 2
DetectRanges ==
    { r \in Ranges : r[1] <= MaxStart /\ r[2] - r[1] <= MaxWidth }
\* a span of the text: its text is the slice its offsets name
SpanOf(r, type, confidence) ==
    [text |-> Slice(PureText, r[1], r[2]), type |-> type,
     start |-> r[1], end |-> r[2], confidence |-> confidence]
\* the type and confidence of a span: two baseline types the placeholder
\* filter keeps and two types the two-pass filter keeps
DetectKinds == { << "EMAIL", 95 >>, << "PHONE", 50 >>, << "PERSON", 95 >>, << "MONEY", 95 >> }
DetectSpans == { SpanOf(r, k[1], k[2]) : r \in DetectRanges, k \in DetectKinds }
DetectLevels == {50, 90}
\* what the Ollama endpoint may answer: nothing usable, an item whose
\* offsets name its text, an item whose offsets do not
OllamaItem(text, start, end) ==
    [text |-> text, type |-> "PII", confidence |-> 90, start |-> start, end |-> end]
DetectReplies(svc) ==
    IF svc = "placeholder" THEN { [ok |-> FALSE, items |-> <<>>] }
    ELSE { [ok |-> FALSE, items |-> <<>>],
           [ok |-> TRUE, items |-> << OllamaItem(Slice(PureText, 0, 1), 0, 1) >>],
           [ok |-> TRUE, items |-> << OllamaItem(Slice(PureText, 1, 2), 0, 1) >>] }

InitDetect ==
    /\ HookIdle
    /\ service \in Services
    /\ \E n \in 0..MaxSpans : \E entities \in [1..n -> DetectSpans], reply \in DetectReplies(service) :
          pure = Filtered(entities, OptionsFor(service, 50, TRUE, TRUE, TRUE), reply)

NextDetect ==
    \/ \E value \in DetectLevels : ChangeSensitivity(value)
    \/ \E value \in BOOLEAN : ChangeFilter("showPII", value)

SpecDetect == InitDetect /\ [][NextDetect]_vars

\* ------------------------------------- extractEntities, on its own
\* extractEntities on texts that hold one ten-digit phone number, written
\* with or without a country code and parentheses and with every separator
\* between its groups, alone or between other words.
MaxCountryDigits == 1
Separators == { <<>>, << " " >>, << "-" >>, << "." >> }
CountryCodes ==
    { <<>> } \cup { << "+" >> \o SubSeq(<< "1", "4", "9", "2" >>, 1, d) : d \in 1..MaxCountryDigits }
\* the groups of the number 555 123 4567 as written
PhoneWriting(cc, ccsep, paren, sep1, sep2) ==
    cc \o (IF cc = <<>> THEN <<>> ELSE ccsep)
       \o (IF paren THEN << "(" >> ELSE <<>>) \o << "5", "5", "5" >>
       \o (IF paren THEN << ")" >> ELSE <<>>)
       \o sep1 \o << "1", "2", "3" >> \o sep2 \o << "4", "5", "6", "7" >>
Prefixes == { <<>>, << "t", " " >> }
Suffixes == { <<>>, << " ", "a", "@", "b", ".", "i", "o" >> }

InitExtract ==
    /\ HookIdle
    /\ service \in Services
    /\ \E cc \in CountryCodes, ccsep \in Separators, paren \in BOOLEAN,
          sep1 \in Separators, sep2 \in Separators,
          prefix \in Prefixes, suffix \in Suffixes :
          LET number == PhoneWriting(cc, ccsep, paren, sep1, sep2)
          IN  pure = [spec |-> "extract", text |-> prefix \o number \o suffix,
                      number |-> [start |-> Len(prefix), end |-> Len(prefix) + Len(number)],
                      extracted |-> FALSE, entities |-> <<>>]

\* this.extractEntities(text), documentService.ts:103
Extract ==
    /\ ~pure.extracted
    /\ pure' = [pure EXCEPT !.extracted = TRUE, !.entities = extractEntities(pure.text)]
    /\ UNCHANGED << state, processedDocumentRef, service, extracting, detecting,
                    issued, lastOp, calls >>

NextExtract == Extract

SpecExtract == InitExtract /\ [][NextExtract]_vars

\* ------------------------- DocumentService.processDocument, step by step
\* One call of processDocument on a file of any MIME type and extension
\* whose pages each extract or fail, from the dispatch on the kind through
\* the awaits of processPDF or processDOCX to the return or the throw.
MaxPages == 2
PdfMime == "application/pdf"
DocxMime == "application/vnd.openxmlformats-officedocument.wordprocessingml.document"
MimeTypes == {PdfMime, DocxMime, "application/docx", "text/plain"}
Extensions == {".pdf", ".docx", ".DOCX", ".txt"}
\* the text items of page k: two items, 'p' and the page's digit
PageItems(k) == << << "p" >>, << SubSeq(<< "1", "2", "3", "4", "5" >>, k, k)[1] >> >>
DocFile(type, ext, opens, oks) ==
    [name |-> "doc" \o ext, type |-> type, ext |-> ext, opens |-> opens,
     pages |-> [k \in 1..Len(oks) |-> Page(oks[k], PageItems(k))],
     value |-> ShortText]

\* what a page adds to text: documentService.ts:130-136
PageContribution_failedLine(page) ==
    IF page.ok THEN Join(page.items, << " " >>) \o << "\n" >> ELSE << "?", "\n" >>
PageContribution(page) ==
    IF page.ok THEN Join(page.items, << " " >>) \o << "\n" >> ELSE <<>>

\* documentService.ts:101-112, from the extracted text on
Returned(kind, text, pageCount) ==
    [text |-> text,
     metadata |-> [type |-> kind, pageCount |-> pageCount,
                   wordCount |-> WordCount(text, FALSE)],
     entities |-> extractEntities(text)]

InitDocument ==
    /\ HookIdle
    /\ service \in Services
    /\ \E type \in MimeTypes, ext \in Extensions, opens \in BOOLEAN, n \in 0..MaxPages :
       \E oks \in [1..n -> BOOLEAN] :
          pure = [spec |-> "document", file |-> DocFile(type, ext, opens, oks),
                  phase |-> "called", backends |-> {}, i |-> 0, attempts |-> {},
                  completed |-> {}, text |-> <<>>, error |-> "null", result |-> null]

\* documentService.ts:70-99: the kind, then the call of its extractor or
\* the throw for an unknown kind
dispatch ==
    /\ pure.phase = "called"
    /\ pure' = IF KindOf(pure.file) = "pdf"
               THEN [pure EXCEPT !.phase = "getDocument", !.backends = {"pdfjs"}]
               ELSE IF KindOf(pure.file) = "docx"
               THEN [pure EXCEPT !.phase = "extractRawText", !.backends = {"mammoth"}]
               ELSE [pure EXCEPT !.phase = "thrown", !.error = "Unsupported file type."]
    /\ UNCHANGED << state, processedDocumentRef, service, extracting, detecting,
                    issued, lastOp, calls >>

\* documentService.ts:124-126: loadingTask.promise settles
getDocument_settled ==
    /\ pure.phase = "getDocument"
    /\ pure' = IF pure.file.opens
               THEN [pure EXCEPT !.phase = "pages", !.i = 1]
               ELSE [pure EXCEPT !.phase = "thrown", !.error = "Failed to process PDF file."]
    /\ UNCHANGED << state, processedDocumentRef, service, extracting, detecting,
                    issued, lastOp, calls >>

\* documentService.ts:129-131: the loop reaches page i and awaits it
getPage ==
    /\ pure.phase = "pages"
    /\ pure.attempts = {}
    /\ pure.i <= Len(pure.file.pages)
    /\ pure' = [pure EXCEPT !.attempts = {pure.i}]
    /\ UNCHANGED << state, processedDocumentRef, service, extracting, detecting,
                    issued, lastOp, calls >>

\* documentService.ts:131-136: the page's text content arrives or the
\* attempt throws into the catch of the loop body
page_settled ==
    /\ pure.phase = "pages"
    /\ \E k \in pure.attempts :
          pure' = [pure EXCEPT !.attempts = pure.attempts \ {k},
                               !.completed = pure.completed \cup {k},
                               !.text = pure.text \o PageContribution(pure.file.pages[k]),
                               !.i = pure.i + 1]
    /\ UNCHANGED << state, processedDocumentRef, service, extracting, detecting,
                    issued, lastOp, calls >>

\* documentService.ts:139 and 101-112: the loop is over
processPDF_returned ==
    /\ pure.phase = "pages"
    /\ pure.attempts = {}
    /\ pure.i > Len(pure.file.pages)
    /\ pure' = [pure EXCEPT !.phase = "returned",
                            !.result = Returned("pdf", Trim(pure.text), Len(pure.file.pages))]
    /\ UNCHANGED << state, processedDocumentRef, service, extracting, detecting,
                    issued, lastOp, calls >>

\* documentService.ts:147-151 and 90-95: extractRawText settles
extractRawText_settled ==
    /\ pure.phase = "extractRawText"
    /\ pure' = IF pure.file.opens
               THEN [pure EXCEPT !.phase = "returned",
                                 !.text = pure.file.value,
                                 !.result = Returned("docx", pure.file.value, NoPageCount)]
               ELSE [pure EXCEPT !.phase = "thrown", !.error = "Failed to process DOCX file."]
    /\ UNCHANGED << state, processedDocumentRef, service, extracting, detecting,
                    issued, lastOp, calls >>

NextDocument ==
    \/ dispatch
    \/ getDocument_settled
    \/ getPage
    \/ page_settled
    \/ processPDF_returned
    \/ extractRawText_settled

SpecDocument == InitDocument /\ [][NextDocument]_vars

\* ------------------------------------------- the review handlers of App
\* The handlers that RedactionDetailsPanel calls (App.tsx:104-117 and
\* pages/Index.tsx:95-126), on the driver's review state: the annotations
\* record.  calls is the history of the last approve or reject call per id,
\* last the handler call made last and how it ended.
MaxNotes == 2
ReviewIds == { << "mock", 0, 0 >>, << "mock", 1, 2 >> }
\* an id that no candidate of the result has
UnknownId == << "mock", 7, 7 >>
HandlerIds == ReviewIds \cup {UnknownId}
Drivers == {"App", "Index"}
Notes == {"n1", "n2"}
NoteCount(annotations) ==
    Len(annotations[<< "mock", 0, 0 >>]) + Len(annotations[<< "mock", 1, 2 >>])
      + Len(annotations[UnknownId])

\* how a handler call ends: redactions[id].text of pages/Index.tsx:98, 107
\* and prev[id].annotations of line 118 throw a TypeError for an id that is
\* not a key of redactions; the handlers of App.tsx read nothing
HandlerOutcome(driver, id) ==
    IF driver = "Index" /\ id \notin ReviewIds THEN "TypeError" ELSE "returned"

InitReview ==
    /\ HookIdle
    /\ service \in Services
    /\ \E driver \in Drivers :
          pure = [spec |-> "review", driver |-> driver,
                  annotations |-> [id \in HandlerIds |-> <<>>],
                  calls |-> [id \in HandlerIds |-> "none"],
                  last |-> [op |-> "none", id |-> UnknownId, outcome |-> "returned"]]

\* App.tsx:104-106: console.log('Approved:', id); Index.tsx:95-102: toast
handleApproveRedaction(id) ==
    /\ pure' = [pure EXCEPT !.calls[id] = "approve",
                            !.last = [op |-> "approve", id |-> id,
                                      outcome |-> HandlerOutcome(pure.driver, id)]]
    /\ UNCHANGED << state, processedDocumentRef, service, extracting, detecting,
                    issued, lastOp, calls >>

\* App.tsx:108-110: console.log('Rejected:', id); Index.tsx:104-111: toast
handleRejectRedaction(id) ==
    /\ pure' = [pure EXCEPT !.calls[id] = "reject",
                            !.last = [op |-> "reject", id |-> id,
                                      outcome |-> HandlerOutcome(pure.driver, id)]]
    /\ UNCHANGED << state, processedDocumentRef, service, extracting, detecting,
                    issued, lastOp, calls >>

\* the updater that handleAddAnnotation hands to setAnnotations
\* (App.tsx:113-116) or setRedactions (Index.tsx:114-120), with the new
\* annotation put first
addAnnotation_first(prev, id, annotation) ==
    [prev EXCEPT ![id] = << annotation >> \o prev[id]]
addAnnotation(prev, id, annotation) ==
    [prev EXCEPT ![id] = Append(prev[id], annotation)]

\* App.tsx:112-117; Index.tsx:113-126
handleAddAnnotation(id, annotation) ==
    /\ NoteCount(pure.annotations) < MaxNotes
    /\ pure' = [pure EXCEPT
                  !.annotations =
                      IF HandlerOutcome(pure.driver, id) = "returned"
                      THEN addAnnotation(pure.annotations, id, annotation)
                      ELSE pure.annotations,
                  !.last = [op |-> "annotate", id |-> id,
                            outcome |-> HandlerOutcome(pure.driver, id)]]
    /\ UNCHANGED << state, processedDocumentRef, service, extracting, detecting,
                    issued, lastOp, calls >>

NextReview ==
    \/ \E id \in HandlerIds : handleApproveRedaction(id)
    \/ \E id \in HandlerIds : handleRejectRedaction(id)
    \/ \E id \in HandlerIds, annotation \in Notes : handleAddAnnotation(id, annotation)

SpecReview == InitReview /\ [][NextReview]_vars

\* ------------------------------------------- the annotation text area
\* RedactionDetailsPanel under a driver: the candidate selected (only
\* pages/Index.tsx ever sets selectedRedactionId, line 92) and the submit of
\* what was typed.  The file holds two definitions of the panel: the first
\* passes the text as typed (lines 41-46), the second trimmed (240-245).
Panels == {"first", "second"}
NoSelection == << "none" >>
Typed == { <<>>, << " " >>, << "n" >>, << " ", "n" >>, << "m", " " >> }
PanelNoteCount(annotations) ==
    Len(annotations[<< "mock", 0, 0 >>]) + Len(annotations[<< "mock", 1, 2 >>])

InitPanel ==
    /\ HookIdle
    /\ service \in Services
    /\ \E driver \in Drivers, panel \in Panels :
          pure = [spec |-> "panel", driver |-> driver, panel |-> panel,
                  selectedRedactionId |-> NoSelection,
                  annotations |-> [id \in ReviewIds |-> <<>>],
                  last |-> [op |-> "none", text |-> <<>>]]

\* pages/Index.tsx:91-93
handleRedactionClick(id) ==
    /\ pure.driver = "Index"
    /\ pure' = [pure EXCEPT !.selectedRedactionId = id,
                            !.last = [op |-> "click", text |-> <<>>]]
    /\ UNCHANGED << state, processedDocumentRef, service, extracting, detecting,
                    issued, lastOp, calls >>

\* RedactionDetailsPanel.tsx:41-46 / 240-245, with the driver's
\* handleAddAnnotation as onAddAnnotation
handleSubmitAnnotation(annotation) ==
    /\ PanelNoteCount(pure.annotations) < MaxNotes
    /\ pure' = [pure EXCEPT
                  !.annotations =
                      IF pure.selectedRedactionId # NoSelection /\ Trim(annotation) # <<>>
                      THEN addAnnotation(pure.annotations, pure.selectedRedactionId,
                                         IF pure.panel = "first" THEN annotation
                                         ELSE Trim(annotation))
                      ELSE pure.annotations,
                  !.last = [op |-> "submit", text |-> annotation]]
    /\ UNCHANGED << state, processedDocumentRef, service, extracting, detecting,
                    issued, lastOp, calls >>

NextPanel ==
    \/ \E id \in ReviewIds : handleRedactionClick(id)
    \/ \E annotation \in Typed : handleSubmitAnnotation(annotation)

SpecPanel == InitPanel /\ [][NextPanel]_vars

\* ------------------------------------ annotations across re-runs in App
\* The annotations record of AppContent (App.tsx:29) while the result is
\* regenerated by an option change (App.tsx:77-102) or by a new document
\* (App.tsx:45-63).  run counts the results published; noted is the history
\* of the run each annotation was made in.
MaxRuns == 3
RerunIds ==
    { << "mock", j, start >> : j \in 0..1, start \in 0..1 }
      \cup { << "entity", r[1], r[2] >> : r \in DetectRanges }
\* the span lists of two documents, of types the bound definition keeps
RerunEntities(svc) ==
    IF svc = "placeholder"
    THEN { << SpanOf(<< 0, 1 >>, "PHONE", 50), SpanOf(<< 0, 2 >>, "EMAIL", 95) >>,
           << SpanOf(<< 1, 2 >>, "EMAIL", 95) >> }
    ELSE { << SpanOf(<< 0, 1 >>, "PERSON", 95), SpanOf(<< 1, 2 >>, "MONEY", 95) >>,
           << SpanOf(<< 0, 1 >>, "MONEY", 95) >> }
NoReply == [ok |-> FALSE, items |-> <<>>]
CandidateIds(result) ==
    IF result = null THEN {}
    ELSE { result.redactions[j].id : j \in { i \in 1..Len(result.redactions) :
                                               "id" \in DOMAIN result.redactions[i] } }

undefined == [undefined |-> TRUE]
RECURSIVE find(_, _)
\* redactions.find(r => r.id === id): the first such candidate, or undefined
find(redactions, id) ==
    IF redactions = <<>> THEN undefined
    ELSE IF "id" \in DOMAIN redactions[1] /\ redactions[1].id = id THEN redactions[1]
    ELSE find(Tail(redactions), id)
\* the lookup without the test of the candidate's id
selectedRedaction_first(selectedRedactionId, redactionResult) ==
    IF selectedRedactionId = NoSelection THEN null
    ELSE IF redactionResult = null \/ redactionResult.redactions = <<>> THEN null
    ELSE redactionResult.redactions[1]
\* App.tsx:41-43: selectedRedactionId &&
\* redactionResult?.redactions.find(r => r.id === selectedRedactionId) || null
selectedRedaction(selectedRedactionId, redactionResult) ==
    IF selectedRedactionId = NoSelection THEN null
    ELSE IF redactionResult = null THEN null
    ELSE IF find(redactionResult.redactions, selectedRedactionId) = undefined THEN null
    ELSE find(redactionResult.redactions, selectedRedactionId)
\* the render of AppContent after a state change
Render(p) ==
    [p EXCEPT !.selectedRedaction = selectedRedaction(p.selectedRedactionId, p.result)]

Rerun(p, options) ==
    Render([p EXCEPT !.options = options,
                     !.result = detectSensitiveData(service, PureDocument(p.entities),
                                                    options, NoReply),
                     !.run = p.run + 1])

InitRerun ==
    /\ HookIdle
    /\ service \in Services
    /\ \E entities \in RerunEntities(service), id \in RerunIds \cup {NoSelection} :
          pure = Render([spec |-> "rerun", entities |-> entities,
                         options |-> OptionsFor(service, 90, TRUE, TRUE, TRUE),
                         result |-> null, run |-> 0,
                         selectedRedactionId |-> id, selectedRedaction |-> null,
                         annotations |-> [x \in RerunIds |-> <<>>],
                         noted |-> [x \in RerunIds |-> <<>>]])

\* App.tsx:56-62 and useDocumentProcessor.ts:81-85: the run that
\* handleFileSelected starts after the extraction completes
runCompleted ==
    /\ pure.result = null
    /\ pure' = Rerun(pure, pure.options)
    /\ UNCHANGED << state, processedDocumentRef, service, extracting, detecting,
                    issued, lastOp, calls >>

\* App.tsx:77-80, with the run it starts completed
handleSensitivityChange(value) ==
    /\ pure.result # null
    /\ pure.run < MaxRuns
    /\ pure' = Rerun(pure, [pure.options EXCEPT !.sensitivityLevel = value])
    /\ UNCHANGED << state, processedDocumentRef, service, extracting, detecting,
                    issued, lastOp, calls >>

\* App.tsx:82-102 for the PII filter, with the run it starts completed
handleFilterChange(value) ==
    /\ pure.result # null
    /\ pure.run < MaxRuns
    /\ pure' = Rerun(pure, OptionsFor(service, pure.options.sensitivityLevel,
                                      value, TRUE, TRUE))
    /\ UNCHANGED << state, processedDocumentRef, service, extracting, detecting,
                    issued, lastOp, calls >>

\* App.tsx:45-55 and useDocumentProcessor.ts:30-46: the document is
\* replaced, which clears the result
handleFileSelected(entities) ==
    /\ pure.result # null
    /\ pure.run < MaxRuns
    /\ pure' = Render([pure EXCEPT !.entities = entities, !.result = null])
    /\ UNCHANGED << state, processedDocumentRef, service, extracting, detecting,
                    issued, lastOp, calls >>

\* App.tsx:112-117 for a candidate of the current result
annotateCandidate(id, annotation) ==
    /\ id \in CandidateIds(pure.result)
    /\ Len(pure.annotations[id]) < MaxNotes
    /\ pure' = [pure EXCEPT !.annotations = addAnnotation(pure.annotations, id, annotation),
                            !.noted[id] = Append(pure.noted[id], pure.run)]
    /\ UNCHANGED << state, processedDocumentRef, service, extracting, detecting,
                    issued, lastOp, calls >>

NextRerun ==
    \/ runCompleted
    \/ \E value \in DetectLevels : handleSensitivityChange(value)
    \/ \E value \in BOOLEAN : handleFilterChange(value)
    \/ \E entities \in RerunEntities(service) : handleFileSelected(entities)
    \/ \E id \in RerunIds : annotateCandidate(id, "n1")

SpecRerun == InitRerun /\ [][NextRerun]_vars

\* ------------------------------- option runs against a failing endpoint
\* The hook after one processDocument call succeeded, its option runs made
\* while the Ollama endpoint is out of order.  What the endpoint does to a
\* run is fixed when the run's fetch is sent and is kept with the run.
\*   unreachable  fetch rejects (aiService.ts:304)
\*   httpError    an error body without `response`: JSON.parse(undefined) throws
\*   notJson      `response` is not JSON text: JSON.parse throws
\*   notArray     `response` is JSON text of an object: JSON.parse returns it
\*   silent       the fetch is never settled; it is sent without a timeout
Endpoints == {"unreachable", "httpError", "notJson", "notArray", "silent"}
\* the outcomes the try block of detectWithOllama (aiService.ts:303-336) catches
Caught == {"unreachable", "httpError", "notJson"}
\* the message of the TypeError that `redactions.push(...ollamaRedactions)`
\* (aiService.ts:255) throws when ollamaRedactions is an object
NotIterableError == "ollamaRedactions is not iterable"

\* useDocumentProcessor.ts:86-95
applyRedactions_catch(prev, errorMessage) ==
    [prev EXCEPT !.error = errorMessage, !.isLoading = FALSE,
                 !.redactionResult = null]

GoodFiles == {f \in Files : ProcessError(f) = "null"}
InitDegrade ==
    /\ service \in Services
    /\ \E file \in GoodFiles :
          LET c == [id |-> 1, file |-> file]
          IN  /\ state = processDocument_done(processDocument_begin(InitialState), DocOf(c))
              /\ processedDocumentRef = DocOf(c)
              /\ calls = << [kind |-> "process", status |-> "succeeded", file |-> file,
                             on |-> 1, displayed |-> FALSE] >>
              /\ lastOp = Op("processSucceeded", 1, DocOf(c))
    /\ extracting = {}
    /\ detecting = <<>>
    /\ issued = 1
    /\ pure = [spec |-> "degrade"]

\* applyRedactions(options) up to its await (useDocumentProcessor.ts:62-78),
\* the fetch of the run meeting the endpoint's behaviour
applyRedactions_sent(options, endpoint) ==
    /\ issued < MaxCalls
    /\ processedDocumentRef # null
    /\ issued' = issued + 1
    /\ state' = applyRedactions_begin(state)
    /\ detecting' = Append(detecting, [id |-> issued + 1,
                                       currentProcessedDoc |-> processedDocumentRef,
                                       options |-> options,
                                       endpoint |-> endpoint])
    /\ lastOp' = Op("applyStarted", issued + 1, null)
    /\ calls' = Append(calls, Call("apply", "pending", null, processedDocumentRef.call))
    /\ UNCHANGED << processedDocumentRef, service, extracting, pure >>

\* applyRedactions after detectSensitiveData resolved
\* (useDocumentProcessor.ts:79-85): the placeholder never contacts the
\* endpoint, the two-pass service got [] from the catch of detectWithOllama
applyRedactions_returned(i) ==
    /\ i \in 1..Len(detecting)
    /\ service = "placeholder" => i = 1
    /\ service = "ollama" => detecting[i].endpoint \in Caught
    /\ state' = applyRedactions_done(state, ResultOf(detecting[i], NoReply))
    /\ detecting' = RemoveAt(detecting, i)
    /\ lastOp' = Op("applySucceeded", detecting[i].id, null)
    /\ calls' = [calls EXCEPT ![detecting[i].id].status = "succeeded"]
    /\ UNCHANGED << processedDocumentRef, service, extracting, issued, pure >>

\* applyRedactions after detectSensitiveData rejected
\* (useDocumentProcessor.ts:86-95): the spread of aiService.ts:255 threw
applyRedactions_threw(i) ==
    /\ i \in 1..Len(detecting)
    /\ service = "ollama"
    /\ detecting[i].endpoint = "notArray"
    /\ state' = applyRedactions_catch(state, NotIterableError)
    /\ detecting' = RemoveAt(detecting, i)
    /\ lastOp' = Op("applyFailed", detecting[i].id, null)
    /\ calls' = [calls EXCEPT ![detecting[i].id].status = "failed"]
    /\ UNCHANGED << processedDocumentRef, service, extracting, issued, pure >>

NextDegrade ==
    \/ \E options \in DriverOptions, endpoint \in Endpoints :
          applyRedactions_sent(options, endpoint)
    \/ \E i \in 1..MaxCalls : applyRedactions_returned(i)
    \/ \E i \in 1..MaxCalls : applyRedactions_threw(i)

\* the continuation of the run with this id, whichever way it settles
Settled(id) ==
    \E i \in 1..MaxCalls :
        /\ i <= Len(detecting)
        /\ detecting[i].id = id
        /\ (applyRedactions_returned(i) \/ applyRedactions_threw(i))

\* A settled promise has its continuation run by the event loop: every run
\* whose detectSensitiveData call settles is eventually continued.
SpecDegrade ==
    InitDegrade /\ [][NextDegrade]_vars /\ \A id \in 1..MaxCalls : WF_vars(Settled(id))

\* ================================================================ claims
IsProcess(id) == id \in 1..Len(calls) /\ calls[id].kind = "process"
\* the id of the processDocument call made last, 0 if none
LatestProcess ==
    IF \E id \in 1..Len(calls) : IsProcess(id)
    THEN CHOOSE id \in 1..Len(calls) :
            IsProcess(id) /\ \A other \in 1..Len(calls) : IsProcess(other) => other <= id
    ELSE 0
\* the option runs still in flight
InFlight == { detecting[i] : i \in 1..Len(detecting) }

\* C1: a run that was superseded by a later run on the same document is
\* never published: the step that publishes a run's result is never taken
\* while a later run on the same document is in flight, and once no run is
\* in flight the published result is not older than any run on its document.
C1_StaleRunNeverPublished ==
    /\ lastOp.op = "applySucceeded" =>
          ~\E r \in InFlight :
              /\ r.id > lastOp.id
              /\ r.currentProcessedDoc.call = state.redactionResult.call
    /\ (detecting = <<>> /\ state.redactionResult # null) =>
          ~\E id \in 1..Len(calls) :
              /\ calls[id].kind = "apply" /\ calls[id].status = "succeeded"
              /\ id > state.redactionResult.run
              /\ calls[id].on = state.redactionResult.call

\* C2: a published result was computed from the document that is current.
C2_ResultOfCurrentDocument ==
    state.redactionResult # null =>
        /\ state.processedDocument # null
        /\ state.redactionResult.call = state.processedDocument.call

\* C3: the current document, in the state and in the ref, is never that of
\* a processDocument call older than the latest one, and once every
\* extraction has finished it is the document of the latest call.
C3_LatestProcessWins ==
    /\ state.processedDocument # null => state.processedDocument.call = LatestProcess
    /\ processedDocumentRef # null => processedDocumentRef.call = LatestProcess
    /\ (extracting = {} /\ LatestProcess > 0 /\ lastOp.op # "reset"
          /\ calls[LatestProcess].status = "succeeded") =>
          /\ state.processedDocument # null
          /\ processedDocumentRef # null

\* C4: applyRedactions called while no document is held sets the
\* NoDocument error and nothing else: no run is started and the document,
\* the result and isLoading are as before.
C4_NoDocumentRefused ==
    [][ (issued' = issued + 1 /\ calls'[issued'].kind = "apply"
           /\ state.processedDocument = null)
        => /\ calls'[issued'].status = "refused"
           /\ state'.error = NoDocumentError
           /\ detecting' = detecting
           /\ state'.processedDocument = state.processedDocument
           /\ state'.redactionResult = state.redactionResult
           /\ state'.isLoading = state.isLoading
           /\ processedDocumentRef' = processedDocumentRef ]_vars

\* C4 witness: a call refused while an extraction is in flight and loading
C4_Witness_RefusedWhileLoading ==
    /\ lastOp.op = "applyRefused"
    /\ extracting # {}
    /\ state.isLoading
    /\ state.error = NoDocumentError

\* whether DocumentService.processDocument fails for the file as a whole
WholeDocumentFailure(file) == KindOf(file) = "unknown" \/ ~file.opens

\* C5: a call for a file that fails as a whole never succeeds, and the step
\* in which it fails returns null, sets the error and leaves no document in
\* the state or in the ref.
C5_FailedProcessRetainsNothing ==
    /\ \A id \in 1..Len(calls) :
          (IsProcess(id) /\ WholeDocumentFailure(calls[id].file))
             => calls[id].status \in {"pending", "failed"}
    /\ lastOp.op = "processFailed" =>
          /\ WholeDocumentFailure(calls[lastOp.id].file)
          /\ lastOp.ret = null
          /\ state.error # "null"
          /\ ~state.isLoading
          /\ state.processedDocument = null
          /\ processedDocumentRef = null

\* C5 witness: a corrupt file's call has failed after another call's document
\* had been made current
C5_Witness_FailedAfterSuccess ==
    /\ lastOp.op = "processFailed"
    /\ ~calls[lastOp.id].file.opens
    /\ \E id \in 1..Len(calls) : IsProcess(id) /\ calls[id].status = "succeeded"

\* C6: when the call made last is a processDocument call that was made
\* while a document and its result were displayed, and it has failed, no
\* document and no result is held.
C6_FailedRunClearsPrevious ==
    (issued > 0 /\ calls[issued].kind = "process" /\ calls[issued].displayed
       /\ calls[issued].status = "failed" /\ lastOp.op # "reset")
    => /\ state.processedDocument = null
       /\ state.redactionResult = null

\* the candidates the filter keeps when run at another sensitivity level
AtLevel(level) ==
    detectSensitiveData(service, PureDocument(pure.entities),
                        [pure.options EXCEPT !.sensitivityLevel = level],
                        pure.reply).redactions
\* whether the span at [start, end) is among the candidates
Kept(redactions, span) ==
    \E j \in 1..Len(redactions) :
        /\ redactions[j].start = span.start /\ redactions[j].end = span.end
        /\ redactions[j].type = span.type

\* C7: with the category flags fixed, every span that the filter keeps at a
\* sensitivity level is kept at every higher level in 0..100, so the number
\* of candidates does not fall as the level rises.
C7_SensitivityMonotone ==
    \A level \in 0..100 :
        level >= pure.options.sensitivityLevel =>
            /\ Len(AtLevel(level)) >= Len(pure.result.redactions)
            /\ \A k \in 1..Len(pure.entities) :
                  Kept(pure.result.redactions, pure.entities[k])
                     => Kept(AtLevel(level), pure.entities[k])

\* App.tsx:24-27, 57-62: the options of the driver's first run
DefaultOptions ==
    [sensitivityLevel |-> 50, showPII |-> TRUE, showFinancial |-> TRUE, showDates |-> TRUE]
\* Scenario A's text with its email [14,21) and its phone number [25,37)
\* replaced by block characters
ScenarioRedacted ==
    [i \in 1..Len(ScenarioText) |->
        IF (i - 1) \in (14..20) \cup (25..36) THEN Block ELSE ScenarioText[i]]

\* C8: the result the hook publishes for the Scenario A document under the
\* driver's options with every category on and sensitivity 50 has exactly
\* two candidates, an EMAIL and a PHONE, neither needing review, and its
\* redactedText is the text with exactly those two spans block-replaced.
C8_ScenarioA ==
    (/\ state.redactionResult # null
     /\ calls[state.redactionResult.call].file = FilePdf
     /\ state.redactionResult.options = DefaultOptions)
    => /\ Len(state.redactionResult.redactions) = 2
       /\ { state.redactionResult.redactions[j].type : j \in 1..2 } = {"EMAIL", "PHONE"}
       /\ \A j \in 1..2 : ~state.redactionResult.redactions[j].needsReview
       /\ state.redactionResult.redactedText = ScenarioRedacted

\* the candidates that were promoted from a span of the document: those of
\* the second detector carry no id (aiService.ts:313-319, 255)
FromBaseline(redactions) ==
    { j \in 1..Len(redactions) : "id" \in DOMAIN redactions[j] }

Covered(candidates) ==
    { i \in 0..(TextLen - 1) :
        \E k \in 1..Len(candidates) : candidates[k].start <= i /\ i < candidates[k].end }

\* every candidate names a range 0 <= start < end <= len(text)
AllInRange(candidates) ==
    \A k \in 1..Len(candidates) : << candidates[k].start, candidates[k].end >> \in Ranges

\* C10: for in-range candidates, overlapping or not, redactedText is as
\* long as the text, holds the block character at every covered offset and
\* the text's own character at every other offset.
C10_LengthPreservingStamp ==
    (pure.applied /\ AllInRange(pure.candidates)) =>
        /\ ~pure.threw
        /\ Len(pure.redactedText) = Len(pure.text)
        /\ \A i \in 0..(Len(pure.text) - 1) :
              pure.redactedText[i + 1] =
                  IF i \in Covered(pure.candidates) THEN Block ELSE pure.text[i + 1]

\* C11: applying a list with a candidate whose start or end is outside the
\* text raises no error, gives a redactedText as long as the text, puts the
\* block character at the covered offsets that lie inside the text and
\* leaves every other offset as it was.
C11_OutOfRangeClamped ==
    (pure.applied /\ ~AllInRange(pure.candidates)) =>
        /\ ~pure.threw
        /\ Len(pure.redactedText) = Len(pure.text)
        /\ \A i \in 0..(Len(pure.text) - 1) :
              pure.redactedText[i + 1] =
                  IF i \in Covered(pure.candidates) THEN Block ELSE pure.text[i + 1]

\* C12: within one RedactionResult every candidate has an id and no two
\* candidates have the same id, also when two candidates of different type
\* cover the same range and when a candidate comes from the second detector.
C12_IdsUnique ==
    pure.spec = "filter" =>
        LET rs == pure.result.redactions
        IN  /\ \A i \in 1..Len(rs) : "id" \in DOMAIN rs[i]
            /\ \A i, j \in 1..Len(rs) :
                  (i # j /\ "id" \in DOMAIN rs[i] /\ "id" \in DOMAIN rs[j])
                      => rs[i].id # rs[j].id

\* two candidates are the same span: same range, type and text
SameSpan(a, b) ==
    a.start = b.start /\ a.end = b.end /\ a.type = b.type /\ a.text = b.text
\* no two elements of the span list are the same span
DistinctSpans(entities) ==
    \A i, j \in 1..Len(entities) : i # j => ~SameSpan(entities[i], entities[j])
HasId(r) == "id" \in DOMAIN r

\* C13: when the filter is re-run on the same span list with other options, a
\* span kept by both runs has the same id in both results, and no id is given
\* to two different spans across the two results.
C13_IdsStable ==
    [][ (pure.spec = "filter" /\ pure'.entities = pure.entities
            /\ DistinctSpans(pure.entities)) =>
          \A i \in 1..Len(pure.result.redactions) :
          \A j \in 1..Len(pure'.result.redactions) :
             LET a == pure.result.redactions[i]
                 b == pure'.result.redactions[j]
             IN  (HasId(a) /\ HasId(b)) => (SameSpan(a, b) <=> a.id = b.id) ]_vars

\* the option flag of the category a span type maps to; FALSE for a type
\* that maps to no category
CategoryFlag(type, options) ==
    IF type \in {"EMAIL", "PHONE", "PERSON", "PII"} THEN PIIFlag(options)
    ELSE IF type \in {"MONEY", "FINANCIAL"} THEN FinancialFlag(options)
    ELSE IF type = "DATE" THEN DatesFlag(options)
    ELSE FALSE
\* the confidence test of the bound definition
BelowBar(svc, confidence, level) ==
    IF svc = "placeholder" THEN BelowThreshold(confidence, level)
    ELSE confidence * level < 5000

\* C14: every candidate of a result has a type that maps to a category whose
\* flag is on, and a candidate taken from the span list comes from a span
\* whose confidence is not below the threshold; no URL span is a candidate.
C14_CategoryGating ==
    pure.spec = "filter" =>
        \A j \in 1..Len(pure.result.redactions) :
            LET c == pure.result.redactions[j]
            IN  /\ CategoryFlag(c.type, pure.options)
                /\ c.type # "URL"
                /\ HasId(c) =>
                      \E k \in 1..Len(pure.entities) :
                          /\ SameSpan(c, pure.entities[k])
                          /\ ~BelowBar(service, pure.entities[k].confidence,
                                       pure.options.sensitivityLevel)

\* C15: the candidates of a result are in ascending order of start, and of
\* end among candidates of equal start, whatever the order of the span list.
C15_CandidatesOrdered ==
    pure.spec = "filter" =>
        \A i, j \in 1..Len(pure.result.redactions) :
            i < j =>
                LET a == pure.result.redactions[i]
                    b == pure.result.redactions[j]
                IN  \/ a.start < b.start
                    \/ a.start = b.start /\ a.end <= b.end

\* a span or candidate names its own text in the text
OffsetsConsistent(text, r) ==
    /\ 0 <= r.start /\ r.start < r.end /\ r.end <= Len(text)
    /\ Slice(text, r.start, r.end) = r.text

\* C16: every span of the span list and every candidate of the result
\* computed from it lies in the text, is not empty, and has the text that its
\* offsets name in the document's text.
C16_OffsetsConsistent ==
    pure.spec = "filter" =>
        /\ \A k \in 1..Len(pure.entities) : OffsetsConsistent(PureText, pure.entities[k])
        /\ \A j \in 1..Len(pure.result.redactions) :
              OffsetsConsistent(PureText, pure.result.redactions[j])

\* C17: a ten-digit phone number written with spaces, hyphens, dots or
\* nothing between its groups, with or without parentheses around the area
\* code and a leading country code, is one PHONE span from its first to its
\* last character.
C17_PhoneSeparators ==
    (pure.spec = "extract" /\ pure.extracted) =>
        \E k \in 1..Len(pure.entities) :
            /\ pure.entities[k].type = "PHONE"
            /\ pure.entities[k].start = pure.number.start
            /\ pure.entities[k].end = pure.number.end

RECURSIVE SuccessfulPages(_, _)
\* the lines of the pages k.. that extracted, in page order
SuccessfulPages(pages, k) ==
    IF k > Len(pages) THEN <<>>
    ELSE (IF pages[k].ok THEN Join(pages[k].items, << " " >>) \o << "\n" >> ELSE <<>>)
           \o SuccessfulPages(pages, k + 1)

\* C18: a PDF that opens is processed without a throw whichever of its pages
\* fail; the returned text is the lines of the pages that extracted, in page
\* order, trimmed, pageCount is the number of pages, and while a page is
\* being attempted every earlier page has settled and no other is attempted.
C18_PageFailureTolerated ==
    (pure.spec = "document" /\ KindOf(pure.file) = "pdf" /\ pure.file.opens) =>
        /\ pure.phase # "thrown"
        /\ \A k \in pure.attempts :
              pure.attempts = {k} /\ pure.completed = 1..(k - 1)
        /\ pure.phase = "returned" =>
              /\ pure.result.text = Trim(SuccessfulPages(pure.file.pages, 1))
              /\ pure.result.metadata.pageCount = Len(pure.file.pages)
              /\ pure.completed = 1..Len(pure.file.pages)

\* C18 witness: a PDF whose first page failed and whose second page
\* extracted has been returned
C18_Witness_FailedThenExtracted ==
    /\ pure.spec = "document"
    /\ pure.phase = "returned"
    /\ Len(pure.file.pages) >= 2
    /\ ~pure.file.pages[1].ok
    /\ pure.file.pages[2].ok
    /\ pure.result.text # <<>>

\* the families a file matches by its MIME type or by its extension
MatchesPdf(file) == file.type = PdfMime \/ file.ext = ".pdf"
MatchesWord(file) == file.type \in {DocxMime, "application/docx"} \/ file.ext = ".docx"

\* C19: once processDocument has dispatched, it has thrown the
\* unsupported-kind error exactly when the file matches neither family, and
\* then no extractor was invoked; a file that matches a family was handed to
\* the extractor of a family it matches.
C19_KindDispatch ==
    (pure.spec = "document" /\ pure.phase # "called") =>
        /\ pure.error = "Unsupported file type."
              <=> (~MatchesPdf(pure.file) /\ ~MatchesWord(pure.file))
        /\ pure.error = "Unsupported file type." => pure.backends = {}
        /\ (MatchesPdf(pure.file) \/ MatchesWord(pure.file)) =>
              /\ pure.backends # {}
              /\ pure.backends \subseteq
                    (IF MatchesPdf(pure.file) THEN {"pdfjs"} ELSE {})
                      \cup (IF MatchesWord(pure.file) THEN {"mammoth"} ELSE {})

\* the decision that the calls so far give a candidate
DecisionAfter(call) ==
    IF call = "approve" THEN "approved"
    ELSE IF call = "reject" THEN "rejected" ELSE "pending"
\* what the driver holds about the review of the candidates
ReviewState(p) == [annotations |-> p.annotations]

\* C20: a call of approve or reject that gives a candidate another decision
\* than it had changes what the driver holds about the review and leaves
\* every annotation as it was; a call of annotate appends the annotation to
\* those of its candidate and changes no other.
C20_ReviewDecisions ==
    [][ (pure.spec = "review" /\ pure'.spec = "review") =>
          \A id \in ReviewIds :
             /\ DecisionAfter(pure'.calls[id]) # DecisionAfter(pure.calls[id]) =>
                   /\ pure'.annotations = pure.annotations
                   /\ ReviewState(pure') # ReviewState(pure)
             /\ pure'.annotations[id] # pure.annotations[id] =>
                   /\ Len(pure'.annotations[id]) = Len(pure.annotations[id]) + 1
                   /\ SubSeq(pure'.annotations[id], 1, Len(pure.annotations[id]))
                         = pure.annotations[id]
                   /\ pure'.calls = pure.calls ]_vars

\* C21: a call of approve or reject with an id that no candidate of the
\* result has fails, and it leaves the annotations and the ids that have
\* annotations as they were.
C21_UnknownCandidateRefused ==
    [][ (pure.spec = "review" /\ pure'.spec = "review"
            /\ pure'.last.op \in {"approve", "reject"}
            /\ pure'.last.id \notin ReviewIds) =>
          /\ pure'.last.outcome # "returned"
          /\ pure'.annotations = pure.annotations ]_vars

\* C22: a submit of an empty or whitespace-only text changes no annotation;
\* a submit of another text for the candidate selected adds that text, as
\* typed or trimmed, after the candidate's earlier annotations, which stay
\* as they were, and changes no other candidate's annotations.
C22_AnnotationsAppendOnly ==
    [][ (pure.spec = "panel" /\ pure'.last.op = "submit") =>
          LET sel == pure.selectedRedactionId
              text == pure'.last.text
          IN  IF Trim(text) = <<>> \/ sel = NoSelection
              THEN pure'.annotations = pure.annotations
              ELSE /\ Len(pure'.annotations[sel]) = Len(pure.annotations[sel]) + 1
                   /\ SubSeq(pure'.annotations[sel], 1, Len(pure.annotations[sel]))
                         = pure.annotations[sel]
                   /\ Trim(pure'.annotations[sel][Len(pure'.annotations[sel])]) = Trim(text)
                   /\ \A id \in ReviewIds \ {sel} :
                         pure'.annotations[id] = pure.annotations[id] ]_vars

\* C22 witness: a second text was submitted for a candidate that had an
\* annotation, after a blank submit was ignored
C22_Witness_SecondAppended ==
    /\ pure.spec = "panel"
    /\ pure.last.op = "submit"
    /\ Trim(pure.last.text) # <<>>
    /\ \E id \in ReviewIds :
          /\ pure.selectedRedactionId = id
          /\ Len(pure.annotations[id]) = 2
          /\ pure.annotations[id][1] # pure.annotations[id][2]

\* C23: every annotation that the driver holds was made against a candidate
\* of the result it holds now: none made before the last re-run or document
\* change is retained, under the id of a new candidate or under any other.
C23_ReviewDiscardedOnRerun ==
    pure.spec = "rerun" =>
        \A id \in RerunIds :
            /\ Len(pure.annotations[id]) = Len(pure.noted[id])
            /\ \A k \in 1..Len(pure.noted[id]) : pure.noted[id][k] = pure.run

\* C24: the candidate shown as selected is null when nothing is selected,
\* when there is no result, or when no candidate of the result has the
\* selected id; otherwise it is a candidate of the result with that id.
C24_SelectionIsLookup ==
    pure.spec = "rerun" =>
        IF pure.selectedRedactionId = NoSelection
             \/ pure.selectedRedactionId \notin CandidateIds(pure.result)
        THEN pure.selectedRedaction = null
        ELSE \E j \in 1..Len(pure.result.redactions) :
                /\ pure.selectedRedaction = pure.result.redactions[j]
                /\ pure.selectedRedaction.id = pure.selectedRedactionId

\* C24 witness: the selected id named a candidate of an earlier result and
\* names none of the result that an option change produced
C24_Witness_CandidateRemoved ==
    /\ pure.spec = "rerun"
    /\ pure.run >= 2
    /\ pure.result # null
    /\ pure.result.redactions # <<>>
    /\ pure.selectedRedactionId # NoSelection
    /\ pure.selectedRedactionId \notin CandidateIds(pure.result)
    /\ pure.selectedRedaction = null

\* whether the option run with this id is awaiting detectSensitiveData
Awaiting(id) == \E i \in 1..Len(detecting) : detecting[i].id = id
\* the result just published holds the candidates its run finds without
\* the second detector, and nothing else
BaselineOnly(result) ==
    result.redactions =
        detectSensitiveData(service, state.processedDocument, result.options,
                            NoReply).redactions

\* C25: every option run made while the second detector is out of order
\* (unreachable, answering with a failure or a malformed response, or not
\* answering) eventually completes: its continuation leaves isLoading false
\* and error null and publishes the baseline candidates only.
C25_SecondaryDegrades ==
    \A id \in 1..MaxCalls :
        Awaiting(id) ~>
            (/\ lastOp = Op("applySucceeded", id, null)
             /\ state.isLoading = FALSE
             /\ state.error = "null"
             /\ state.redactionResult # null
             /\ state.redactionResult.run = id
             /\ BaselineOnly(state.redactionResult))

\* whether the candidate is flagged for review: a candidate without the
\* field reads as undefined, which is not true
NeedsReview(c) == "needsReview" \in DOMAIN c /\ c.needsReview
\* whether the candidate was promoted from a span of the span list
Promoted(c) == "id" \in DOMAIN c
\* the confidence, in hundredths, of the span a candidate was promoted from
ConfidenceOfSpan(c) ==
    { pure.entities[k].confidence :
        k \in { k \in 1..Len(pure.entities) :
                  /\ pure.entities[k].start = c.start
                  /\ pure.entities[k].end = c.end
                  /\ pure.entities[k].type = c.type } }

\* C26: every candidate of a result has a confidence in [0,1] (0..100
\* hundredths), a promoted candidate has the confidence of its span, and
\* needsReview is true exactly when the candidate's own confidence is below
\* 0.8, at every sensitivity level.
C26_ConfidenceIsFraction ==
    pure.spec = "filter" =>
        \A j \in 1..Len(pure.result.redactions) :
            LET c == pure.result.redactions[j]
            IN  /\ 0 <= c.confidence /\ c.confidence <= 100
                /\ Promoted(c) => c.confidence \in ConfidenceOfSpan(c)
                /\ NeedsReview(c) <=> c.confidence < 80

\* whether a processDocument or applyRedactions call has started and has
\* not completed
WorkInFlight == extracting # {} \/ detecting # <<>>

\* C27: in every reachable state of the hook, isLoading is true if and only
\* if at least one processDocument or applyRedactions call is in flight.
C27_LoadingIffInFlight == state.isLoading <=> WorkInFlight

\* C28: in the state a successful processDocument call leaves, before any
\* other call is started, the hook holds no error, also when applyRedactions
\* was refused while the extraction was in flight: no call failed, and the
\* calls made since the extraction started are refused applyRedactions calls.
C28_NoErrorAfterSuccess ==
    (/\ lastOp.op = "processSucceeded"
     /\ \A k \in 1..Len(calls) :
           /\ k < lastOp.id => calls[k].status # "failed"
           /\ k > lastOp.id => calls[k].status = "refused")
    => state.error = "null"

\* C29: a step that follows reset() and starts no call, the completion of
\* a call that was in flight when reset() was called, leaves the hook as
\* reset left it: no document, no result, isLoading false, error null.
C29_ResetDurable ==
    [][(lastOp.op = "reset" /\ issued' = issued) => state' = InitialState]_vars

ApplySteps == {"applyRefused", "applyStarted", "applySucceeded", "applyFailed"}

\* C30: between handler steps processedDocumentRef.current is
\* state.processedDocument, after any interleaving of processDocument
\* starts, successes and failures, applyRedactions and reset, and no step of
\* applyRedactions changes either of them.
C30_RefIsPublishedDocument ==
    /\ [](processedDocumentRef = state.processedDocument)
    /\ [][lastOp'.op \in ApplySteps =>
            /\ state'.processedDocument = state.processedDocument
            /\ processedDocumentRef' = processedDocumentRef]_vars

\* a run made on an earlier document has completed after a later
\* processDocument call succeeded, and the document of the later call is held
C30_Witness_RunOnEarlierDocument ==
    /\ lastOp.op = "applySucceeded"
    /\ state.processedDocument # null
    /\ processedDocumentRef = state.processedDocument
    /\ state.redactionResult # null
    /\ state.redactionResult.call < state.processedDocument.call

====
